---- MODULE Spec2Model ----
(***************************************************************************)
(* Model of etl.py: the driver main(), the song pipeline                   *)
(* process_song_data and the log pipeline process_log_data.                *)
(*                                                                         *)
(* A data frame is a bag (multiset) of rows, a row is a record.  The       *)
(* engine's select / distinct / filter / join are bag operators, so that   *)
(* duplicate elimination is something the model can get wrong.  Storage    *)
(* is five tables; every write and every read is one step that either      *)
(* completes or raises, and an exception is handled nowhere in etl.py.     *)
(***************************************************************************)
EXTENDS Integers, FiniteSets, Sequences, Bags, TLC

(* ---------------------------------------------------------------------- *)
(* Bounds of the model                                                     *)
(* ---------------------------------------------------------------------- *)

\* how many raw records, duplicates counted, each of the two inputs may hold
MaxRecords == 2

\* how many times main() is invoked on the same storage
MaxRuns == 2

(* ---------------------------------------------------------------------- *)
(* Program constants                                                       *)
(* ---------------------------------------------------------------------- *)

\* status = 200 in the filter
OkStatus == 200

\* ts / 1000: epoch milliseconds to epoch seconds
MsPerSecond == 1000

\* the SQL NULL of a nullable STRING column
Null == "<null>"

(* ---------------------------------------------------------------------- *)
(* Engine operators on data frames (bags of rows)                          *)
(* ---------------------------------------------------------------------- *)

RECURSIVE SumOver(_, _)
SumOver(B, S) ==
    IF S = {} THEN 0
    ELSE LET x == CHOOSE y \in S : TRUE
         IN  B[x] + SumOver(B, S \ {x})

\* number of rows of a data frame, duplicates counted
Count(B) == BagCardinality(B)

\* df.select(...): every row r becomes cols[r], duplicates are kept
Select(B, cols) ==
    LET img == {cols[r] : r \in DOMAIN B}
    IN  [x \in img |->
            BagCardinality([r \in {q \in DOMAIN B : cols[q] = x} |-> B[r]])]

\* faulty variant of Distinct: duplicates are kept
DistinctKeepsDuplicates(B) == B

\* df.distinct(): one copy of every row
Distinct(B) == [x \in DOMAIN B |-> 1]

\* df.filter(...): the rows of B that are in keep, the predicate's rows
Where(B, keep) == [x \in DOMAIN B \cap keep |-> B[x]]

\* faulty variant of SqlEq: NULL compares equal to NULL
SqlEqNullMatches(x, y) == x = y

\* SQL `=` in a WHERE clause: NULL = anything is not TRUE
SqlEq(x, y) == x # Null /\ y # Null /\ x = y

(* ---------------------------------------------------------------------- *)
(* Timestamps and calendar fields (UTC, proleptic Gregorian calendar)      *)
(* ---------------------------------------------------------------------- *)

\* (col('ts') / 1000).cast('timestamp'): seconds since the epoch, the
\* milliseconds kept as the fraction
EventTs(ts) == [sec |-> ts \div MsPerSecond, ms |-> ts % MsPerSecond]

EpochDay(t) == t.sec \div 86400

\* civil date of a day number (days since 1970-01-01)
CivilFromDays(days) ==
    LET z   == days + 719468
        era == z \div 146097
        doe == z - era * 146097
        yoe == (doe - doe \div 1460 + doe \div 36524 - doe \div 146096) \div 365
        doy == doe - (365 * yoe + yoe \div 4 - yoe \div 100)
        mp  == (5 * doy + 2) \div 153
        d   == doy - (153 * mp + 2) \div 5 + 1
        m   == IF mp < 10 THEN mp + 3 ELSE mp - 9
        y   == yoe + era * 400 + (IF m <= 2 THEN 1 ELSE 0)
    IN  [year |-> y, month |-> m, day |-> d]

\* day number of a civil date
DaysFromCivil(y0, m, d) ==
    LET y   == IF m <= 2 THEN y0 - 1 ELSE y0
        era == y \div 400
        yoe == y - era * 400
        doy == (153 * (IF m > 2 THEN m - 3 ELSE m + 9) + 2) \div 5 + d - 1
        doe == yoe * 365 + yoe \div 4 - yoe \div 100 + doy
    IN  era * 146097 + doe - 719468

\* hour(event_ts)
Hour(t) == (t.sec \div 3600) % 24

\* day(event_ts): day of the month
Day(t) == CivilFromDays(EpochDay(t)).day

\* month(event_ts)
Month(t) == CivilFromDays(EpochDay(t)).month

\* year(event_ts)
Year(t) == CivilFromDays(EpochDay(t)).year

\* dayofweek(event_ts): 1 = Sunday ... 7 = Saturday; 1970-01-01 is a Thursday
DayOfWeek(t) == ((EpochDay(t) + 4) % 7) + 1

\* true when the ISO year y has 53 weeks
LongIsoYear(y) ==
    LET P(n) == (n + n \div 4 - n \div 100 + n \div 400) % 7
    IN  P(y) = 4 \/ P(y - 1) = 3

\* weekofyear(event_ts): ISO 8601 week number
WeekOfYear(t) ==
    LET days    == EpochDay(t)
        y       == Year(t)
        ordinal == days - DaysFromCivil(y, 1, 1) + 1
        isoDow  == ((days + 3) % 7) + 1
        w       == (ordinal - isoDow + 10) \div 7
    IN  IF w < 1 THEN (IF LongIsoYear(y - 1) THEN 53 ELSE 52)
        ELSE IF w = 53 /\ ~LongIsoYear(y) THEN 1
        ELSE w

(* ---------------------------------------------------------------------- *)
(* Raw input records                                                       *)
(* ---------------------------------------------------------------------- *)

\* a song record, typed by the schema of process_song_data
SongRecord(id, n, aid, aname, t, y) ==
    [song_id |-> id, num_songs |-> n, artist_id |-> aid,
     artist_latitude |-> 35, artist_longitude |-> 139,
     artist_location |-> "London", artist_name |-> aname,
     title |-> t, duration |-> 295, year |-> y]

\* an event record, typed by the schema of process_log_data
EventRecord(ar, so, pg, st, t, uid, lv, item) ==
    [artist |-> ar, auth |-> "Logged In", first_name |-> "Ann",
     gender |-> "F", item_in_session |-> item, last_name |-> "Lee",
     length |-> 295, level |-> lv, location |-> "NYC", method |-> "PUT",
     page |-> pg, registration |-> 1, session_id |-> 42, song |-> so,
     status |-> st, ts |-> t, user_agent |-> "UA1", user_id |-> uid]

\* the song records an input is drawn from: two songs that share a title
\* and have different artists, and a record without a title whose artist
\* is the first one's
SongUniverse ==
    { SongRecord("S1", 1, "A1", "Adele",  "Hello", 2015),
      SongRecord("S2", 1, "A2", "Lionel", "Hello", 1984),
      SongRecord("S3", 2, "A1", "Adele",  Null,    0) }

\* the event records an input is drawn from: two plays that differ in
\* item_in_session only, a play without a song by the same user at another
\* level, and a page view and a refused play that name a song of the catalog
EventUniverse ==
    { EventRecord("Adele", "Hello", "NextSong", OkStatus, 1500,      7, "paid", 1),
      EventRecord("Adele", "Hello", "NextSong", OkStatus, 1500,      7, "paid", 2),
      EventRecord("Adele", Null,    "NextSong", OkStatus, 997200007, 7, "free", 3),
      EventRecord("Adele", "Hello", "Home",     OkStatus, 1500,      8, "free", 4),
      EventRecord("Adele", "Hello", "NextSong", 404,      1500,      8, "free", 5) }

\* every data frame of at most MaxRecords records of U
InputFrames(U) ==
    { [x \in {u \in U : f[u] > 0} |-> f[x]] :
        f \in {g \in [U -> 0 .. MaxRecords] : SumOver(g, U) <= MaxRecords} }

(* ---------------------------------------------------------------------- *)
(* Table derivations                                                       *)
(* ---------------------------------------------------------------------- *)

\* df.select('song_id', 'title', 'artist_id', 'year', 'duration')
SongColumns(r) ==
    [song_id |-> r.song_id, title |-> r.title, artist_id |-> r.artist_id,
     year |-> r.year, duration |-> r.duration]

\* songs_table
SongsTable(df) == Distinct(Select(df, [r \in DOMAIN df |-> SongColumns(r)]))

\* df.selectExpr('artist_id', 'artist_name as name', ...)
ArtistColumns(r) ==
    [artist_id |-> r.artist_id, name |-> r.artist_name,
     location |-> r.artist_location, latitude |-> r.artist_latitude,
     longitude |-> r.artist_longitude]

\* artists_table
ArtistsTable(df) == Distinct(Select(df, [r \in DOMAIN df |-> ArtistColumns(r)]))

\* faulty variant of SongPlayFilter: the page is not looked at
SongPlayFilterStatusOnly(e) == e.status = OkStatus

\* the predicate "page = 'NextSong' AND status = 200"
SongPlayFilter(e) == SqlEq(e.page, "NextSong") /\ e.status = OkStatus

\* df.filter("page = 'NextSong' AND status = 200")
FilterSongPlays(df) == Where(df, {e \in DOMAIN df : SongPlayFilter(e)})

\* df.select('user_id', 'first_name', 'last_name', 'gender', 'level')
UserColumns(e) ==
    [user_id |-> e.user_id, first_name |-> e.first_name,
     last_name |-> e.last_name, gender |-> e.gender, level |-> e.level]

\* faulty variant of UsersTable: .distinct() is missing
UsersTableKeepsDuplicates(df) == Select(df, [e \in DOMAIN df |-> UserColumns(e)])

\* users_table
UsersTable(df) == Distinct(Select(df, [e \in DOMAIN df |-> UserColumns(e)]))

\* df.withColumn('event_ts', (col('ts') / 1000).cast('timestamp'))
WithEventTs(df) ==
    Select(df, [e \in DOMAIN df |-> [event_ts |-> EventTs(e.ts)] @@ e])

\* df.selectExpr('event_ts as start_time', 'hour(event_ts) as hour', ...)
TimeColumns(e) ==
    [start_time |-> e.event_ts, hour |-> Hour(e.event_ts),
     day |-> Day(e.event_ts), week |-> WeekOfYear(e.event_ts),
     month |-> Month(e.event_ts), year |-> Year(e.event_ts),
     weekday |-> DayOfWeek(e.event_ts)]

\* time_table
TimeTable(df) == Distinct(Select(df, [e \in DOMAIN df |-> TimeColumns(e)]))

\* the select list of the songplays query, for one row of the join
SongplayColumns(e, s, a) ==
    [event_ts |-> e.event_ts, year |-> Year(e.event_ts),
     month |-> Month(e.event_ts), user_id |-> e.user_id, level |-> e.level,
     session_id |-> e.session_id, location |-> e.location,
     user_agent |-> e.user_agent, song_id |-> s.song_id,
     artist_id |-> a.artist_id]

\* WHERE ev.song = s.title AND ev.artist = a.name
JoinCondition(e, s, a) == SqlEq(e.song, s.title) /\ SqlEq(e.artist, a.name)

\* FROM events AS ev, song AS s, artist AS a WHERE ...: the rows of the
\* cross product the condition is TRUE of, each as often as its parts occur
JoinRows(ev, so, ar) ==
    LET triples == {t \in (DOMAIN ev) \X (DOMAIN so) \X (DOMAIN ar) :
                        JoinCondition(t[1], t[2], t[3])}
    IN  [t \in triples |-> ev[t[1]] * so[t[2]] * ar[t[3]]]

\* songplays_table: SELECT DISTINCT ... over the join
SongplaysTable(ev, so, ar) ==
    LET joined == JoinRows(ev, so, ar)
    IN  Distinct(Select(joined,
                        [t \in DOMAIN joined |->
                            SongplayColumns(t[1], t[2], t[3])]))

(* ---------------------------------------------------------------------- *)
(* State                                                                   *)
(* ---------------------------------------------------------------------- *)

VARIABLES
    songInput,    \* the records under input_data + 'song_data/*/*/*/*.json'
    eventInput,   \* the records under input_data + 'log_data/*/*/*-events.json'
    storage,      \* the five tables under output_data
    pc,           \* the statement main() is at: "idle", a step, or "exit"
    session,      \* the Spark session: "none", "open" or "stopped"
    stops,        \* calls of spark.stop() in the current run
    df_song,      \* df of process_song_data
    df_log,       \* df of process_log_data
    song_df,      \* song_df of process_log_data
    artist_df,    \* artist_df of process_log_data
    runs,         \* how many times main() has been started
    lastOutcome,  \* how the run before the current one ended: "none" when
                  \* there was none, else "ok" or "failed"
    raisedAt,     \* the statement whose exception ended the current run, or "none"
    written,      \* the tables whose write has completed in the current run
    before        \* the contents of storage when the current run started

vars == <<songInput, eventInput, storage, pc, session, stops, df_song,
          df_log, song_df, artist_df, runs, lastOutcome, raisedAt, written,
          before>>

Tables == {"songs", "artists", "users", "time", "songplays"}

EmptyStorage == [t \in Tables |-> EmptyBag]

\* rows left at the output locations by an earlier run on other inputs; the
\* stale song and artist carry a title and a name the events ask for
StaleStorage ==
    LET r == SongRecord("S9", 1, "A9", "Adele", "Hello", 1999)
        e == WithEventTs(SetToBag({EventRecord("Adele", "Hello", "NextSong",
                                               OkStatus, 0, 9, "free", 1)}))
    IN  [songs     |-> SongsTable(SetToBag({r})),
         artists   |-> ArtistsTable(SetToBag({r})),
         users     |-> UsersTable(e),
         time      |-> TimeTable(e),
         songplays |-> SongplaysTable(e, SongsTable(SetToBag({r})),
                                      ArtistsTable(SetToBag({r})))]

\* faulty variant of ProgramOrder: the log pipeline runs before the song
\* pipeline
ProgramOrderLogFirst ==
    <<"log_read", "users_write", "time_write", "read_back", "songplays_write",
      "song_read", "songs_write", "artists_write", "stop">>

\* the statements of main() that act on the engine, in program order:
\* process_song_data, process_log_data, spark.stop()
ProgramOrder ==
    <<"song_read", "songs_write", "artists_write",
      "log_read", "users_write", "time_write", "read_back", "songplays_write",
      "stop">>

\* the statement after step in program order
Succ(step) ==
    LET i == CHOOSE k \in 1 .. Len(ProgramOrder) : ProgramOrder[k] = step
    IN  IF i = Len(ProgramOrder) THEN "exit" ELSE ProgramOrder[i + 1]

\* the table a write step writes
Target(step) ==
    CASE step = "songs_write"     -> "songs"
      [] step = "artists_write"   -> "artists"
      [] step = "users_write"     -> "users"
      [] step = "time_write"      -> "time"
      [] step = "songplays_write" -> "songplays"
      [] OTHER                    -> "none"

\* faulty variant of WriteOverwrite: mode('append')
WriteAppend(st, t, rows) == [st EXCEPT ![t] = @ (+) rows]

\* table.write.mode('overwrite')...parquet(path): the table's contents are
\* replaced by rows
WriteOverwrite(st, t, rows) == [st EXCEPT ![t] = rows]

\* faulty variant of AfterFailedStep: a failed run is rolled back
AfterFailedStepRollback(st, step) == {before}

\* what storage can hold after step raised: a read fails without touching
\* storage; an overwrite that fails has removed the old contents or not
AfterFailedStep(st, step) ==
    IF Target(step) \in Tables
    THEN {st, [st EXCEPT ![Target(step)] = EmptyBag]}
    ELSE {st}

Init ==
    /\ songInput \in InputFrames(SongUniverse)
    /\ eventInput \in InputFrames(EventUniverse)
    /\ storage \in {EmptyStorage, StaleStorage}
    /\ pc = "idle"
    /\ session = "none"
    /\ stops = 0
    /\ df_song = EmptyBag
    /\ df_log = EmptyBag
    /\ song_df = EmptyBag
    /\ artist_df = EmptyBag
    /\ runs = 0
    /\ lastOutcome = "none"
    /\ raisedAt = "none"
    /\ written = {}
    /\ before = storage

(* ---------------------------------------------------------------------- *)
(* main()                                                                  *)
(* ---------------------------------------------------------------------- *)

\* spark = create_spark_session(), in a fresh process
CreateSparkSession ==
    /\ pc \in {"idle", "exit"}
    /\ runs < MaxRuns
    /\ runs' = runs + 1
    /\ lastOutcome' = IF pc = "idle" THEN "none"
                      ELSE IF raisedAt = "none" THEN "ok" ELSE "failed"
    /\ pc' = ProgramOrder[1]
    /\ session' = "open"
    /\ stops' = 0
    /\ raisedAt' = "none"
    /\ written' = {}
    /\ before' = storage
    /\ df_song' = EmptyBag
    /\ df_log' = EmptyBag
    /\ song_df' = EmptyBag
    /\ artist_df' = EmptyBag
    /\ UNCHANGED <<songInput, eventInput, storage>>

\* df = spark.read.schema(...).json(song_data)
SongRead ==
    /\ pc = "song_read"
    /\ df_song' = songInput
    /\ pc' = Succ(pc)
    /\ UNCHANGED <<songInput, eventInput, storage, session, stops, df_log,
                   song_df, artist_df, runs, lastOutcome, written, before,
                   raisedAt>>

\* songs_table = ...; songs_table.write.mode('overwrite')...
SongsWrite ==
    /\ pc = "songs_write"
    /\ storage' = WriteOverwrite(storage, "songs", SongsTable(df_song))
    /\ written' = written \cup {"songs"}
    /\ pc' = Succ(pc)
    /\ UNCHANGED <<songInput, eventInput, session, stops, df_song, df_log,
                   song_df, artist_df, runs, lastOutcome, before, raisedAt>>

\* artists_table = ...; artists_table.write.mode('overwrite')...; and
\* process_song_data returns, which ends the life of its df
ArtistsWrite ==
    /\ pc = "artists_write"
    /\ storage' = WriteOverwrite(storage, "artists", ArtistsTable(df_song))
    /\ written' = written \cup {"artists"}
    /\ df_song' = EmptyBag
    /\ pc' = Succ(pc)
    /\ UNCHANGED <<songInput, eventInput, session, stops, df_log,
                   song_df, artist_df, runs, lastOutcome, before, raisedAt>>

\* df = spark.read.schema(...).json(log_data); df = df.filter(...)
LogRead ==
    /\ pc = "log_read"
    /\ df_log' = FilterSongPlays(eventInput)
    /\ pc' = Succ(pc)
    /\ UNCHANGED <<songInput, eventInput, storage, session, stops, df_song,
                   song_df, artist_df, runs, lastOutcome, written, before,
                   raisedAt>>

\* users_table = ...; users_table.write.mode('overwrite')...
UsersWrite ==
    /\ pc = "users_write"
    /\ storage' = WriteOverwrite(storage, "users", UsersTable(df_log))
    /\ written' = written \cup {"users"}
    /\ pc' = Succ(pc)
    /\ UNCHANGED <<songInput, eventInput, session, stops, df_song, df_log,
                   song_df, artist_df, runs, lastOutcome, before, raisedAt>>

\* df = df.withColumn('event_ts', ...); time_table = ...;
\* time_table.write.mode('overwrite')...
TimeWrite ==
    /\ pc = "time_write"
    /\ df_log' = WithEventTs(df_log)
    /\ storage' = WriteOverwrite(storage, "time", TimeTable(df_log'))
    /\ written' = written \cup {"time"}
    /\ pc' = Succ(pc)
    /\ UNCHANGED <<songInput, eventInput, session, stops, df_song,
                   song_df, artist_df, runs, lastOutcome, before, raisedAt>>

\* song_df = spark.read.parquet(...songs); artist_df = spark.read.parquet(
\* ...artists); the three temporary views
ReadBack ==
    /\ pc = "read_back"
    /\ song_df' = storage["songs"]
    /\ artist_df' = storage["artists"]
    /\ pc' = Succ(pc)
    /\ UNCHANGED <<songInput, eventInput, storage, session, stops, df_song,
                   df_log, runs, lastOutcome, written, before, raisedAt>>

\* songplays_table = spark.sql(...); songplays_table.write.mode(
\* 'overwrite')...; and process_log_data returns, which ends the life of
\* its three data frames
SongplaysWrite ==
    /\ pc = "songplays_write"
    /\ storage' = WriteOverwrite(storage, "songplays",
                                 SongplaysTable(df_log, song_df, artist_df))
    /\ written' = written \cup {"songplays"}
    /\ df_log' = EmptyBag
    /\ song_df' = EmptyBag
    /\ artist_df' = EmptyBag
    /\ pc' = Succ(pc)
    /\ UNCHANGED <<songInput, eventInput, session, stops, df_song,
                   runs, lastOutcome, before, raisedAt>>

\* spark.stop(), and main() returns
SparkStop ==
    /\ pc = "stop"
    /\ session' = "stopped"
    /\ stops' = stops + 1
    /\ pc' = Succ(pc)
    /\ UNCHANGED <<songInput, eventInput, storage, df_song, df_log, song_df,
                   artist_df, runs, lastOutcome, written, before, raisedAt>>

\* a read, transform or write raises: nothing in etl.py catches it, so
\* the pipeline and main() are left at once, the statements after it are
\* not executed and the pipeline's data frames are gone
Raise ==
    /\ pc \in {ProgramOrder[k] : k \in 1 .. Len(ProgramOrder)} \ {"stop"}
    /\ storage' \in AfterFailedStep(storage, pc)
    /\ raisedAt' = pc
    /\ df_song' = EmptyBag
    /\ df_log' = EmptyBag
    /\ song_df' = EmptyBag
    /\ artist_df' = EmptyBag
    /\ pc' = "exit"
    /\ UNCHANGED <<songInput, eventInput, session, stops, runs, lastOutcome,
                   written, before>>

Next ==
    \/ CreateSparkSession
    \/ SongRead
    \/ SongsWrite
    \/ ArtistsWrite
    \/ LogRead
    \/ UsersWrite
    \/ TimeWrite
    \/ ReadBack
    \/ SongplaysWrite
    \/ SparkStop
    \/ Raise

Spec == Init /\ [][Next]_vars

(* ---------------------------------------------------------------------- *)
(* Vocabulary of the properties                                            *)
(* ---------------------------------------------------------------------- *)

\* the current run has ended, and how
RunEnded  == pc = "exit"
RunOk     == RunEnded /\ raisedAt = "none"
RunFailed == RunEnded /\ raisedAt # "none"

\* an input event is a song play
Qualifies(e) == e.page = "NextSong" /\ e.status = OkStatus

\* exact equality of the event's song and artist with a title and a name
Matches(e, s, a) ==
    /\ e.song # Null /\ e.song = s.title
    /\ e.artist # Null /\ e.artist = a.name

\* the (event, song row, artist row) triples of the stored catalog
Triples ==
    {t \in (DOMAIN eventInput) \X (DOMAIN storage["songs"])
                               \X (DOMAIN storage["artists"]) :
        Qualifies(t[1]) /\ Matches(t[1], t[2], t[3])}

\* the number of triples, every occurrence of an event counted
TripleOccurrences ==
    SumOver([t \in Triples |-> eventInput[t[1]]], Triples)

\* the fact row of a triple
RowOf(t) ==
    SongplayColumns([event_ts |-> EventTs(t[1].ts)] @@ t[1], t[2], t[3])

\* the input events without every occurrence of e
Without(e) == Where(eventInput, DOMAIN eventInput \ {e})

\* table t as a function of the raw inputs alone
FromInputs(t) ==
    LET ev == WithEventTs(FilterSongPlays(eventInput))
    IN  CASE t = "songs"     -> SongsTable(songInput)
          [] t = "artists"   -> ArtistsTable(songInput)
          [] t = "users"     -> UsersTable(FilterSongPlays(eventInput))
          [] t = "time"      -> TimeTable(ev)
          [] t = "songplays" -> SongplaysTable(ev, SongsTable(songInput),
                                               ArtistsTable(songInput))

\* the order of the five writes
WriteOrder == <<"songs", "artists", "users", "time", "songplays">>

LogSteps ==
    {"log_read", "users_write", "time_write", "read_back", "songplays_write"}

(* ---------------------------------------------------------------------- *)
(* C1                                                                      *)
(* ---------------------------------------------------------------------- *)

\* C1: whenever a run of main() has ended, normally or with an error, the
\* session was released by exactly one call of spark.stop().
C1_SessionReleasedOnEveryExit ==
    RunEnded => (session = "stopped" /\ stops = 1)

(* ---------------------------------------------------------------------- *)
(* C2                                                                      *)
(* ---------------------------------------------------------------------- *)

\* C2 as stated: once songplays is written it holds exactly one row for
\* every qualifying (event, song, artist) triple and no two triples share a
\* row: as many rows as there are triples, event occurrences counted.
C2_OneRowPerTriple ==
    "songplays" \in written =>
        /\ \A t \in Triples : CopiesIn(RowOf(t), storage["songplays"]) = 1
        /\ Count(storage["songplays"]) = TripleOccurrences

\* C2 amended: once songplays is written, the select list of every
\* qualifying triple is in it exactly once, and it has as many rows as
\* there are distinct select lists: triples with equal select lists share
\* one row.
C2_OneRowPerDistinctSelectList ==
    "songplays" \in written =>
        /\ \A t \in Triples : CopiesIn(RowOf(t), storage["songplays"]) = 1
        /\ Count(storage["songplays"]) = Cardinality({RowOf(t) : t \in Triples})

\* two occurrences of a qualifying triple were collapsed into one row
C2_Witness ==
    /\ "songplays" \in written
    /\ Count(storage["songplays"]) >= 1
    /\ TripleOccurrences > Count(storage["songplays"])

(* ---------------------------------------------------------------------- *)
(* C3                                                                      *)
(* ---------------------------------------------------------------------- *)

\* C3: once users is written, user_id is a key of it: no two rows carry
\* the same user_id.
C3_UserIdIsKey ==
    "users" \in written =>
        \A r1, r2 \in DOMAIN storage["users"] :
            r1.user_id = r2.user_id => r1 = r2

(* ---------------------------------------------------------------------- *)
(* C4                                                                      *)
(* ---------------------------------------------------------------------- *)

\* C4: the log pipeline is entered only after the songs write and the
\* artists write of the same run have completed, and what the join reads
\* back is what this run's song pipeline derived from this run's input.
C4_ReadBackAfterSongPipeline ==
    /\ pc \in LogSteps => {"songs", "artists"} \subseteq written
    /\ pc = "songplays_write" =>
          /\ song_df = SongsTable(songInput)
          /\ artist_df = ArtistsTable(songInput)

\* the join is about to run in a second run, after a first one that
\* failed, on tables that differ from what storage held before the run
C4_Witness ==
    /\ pc = "songplays_write"
    /\ lastOutcome = "failed"
    /\ song_df # before["songs"]
    /\ artist_df # before["artists"]
    /\ before["songs"] # EmptyBag

(* ---------------------------------------------------------------------- *)
(* C5                                                                      *)
(* ---------------------------------------------------------------------- *)

\* C5: once songplays is written, every row of it is the fact row of an
\* input event with page NextSong and status 200, a songs row and an
\* artists row whose title and name equal the event's song and artist,
\* neither being null; and no row has a null song_id or artist_id.
C5_EveryRowHasAWitness ==
    "songplays" \in written =>
        \A row \in DOMAIN storage["songplays"] :
            /\ \E t \in Triples :
                  /\ row = RowOf(t)
                  /\ row.song_id = t[2].song_id
                  /\ row.artist_id = t[3].artist_id
            /\ row.song_id # Null
            /\ row.artist_id # Null

\* songplays is written and not empty, from an input with an event without
\* a song and a catalog record without a title
C5_Witness ==
    /\ "songplays" \in written
    /\ storage["songplays"] # EmptyBag
    /\ \E e \in DOMAIN eventInput : Qualifies(e) /\ e.song = Null
    /\ \E r \in DOMAIN songInput : r.title = Null

(* ---------------------------------------------------------------------- *)
(* C6                                                                      *)
(* ---------------------------------------------------------------------- *)

\* C6: after a run that ended normally, the five tables are functions of
\* that run's raw inputs alone; and when the run before it ended normally
\* too, the five tables are what they were when the run started.
C6_OutputsDeterminedByInputs ==
    RunOk =>
        /\ \A t \in Tables : storage[t] = FromInputs(t)
        /\ lastOutcome = "ok" => storage = before

\* two runs in a row ended normally, with rows in every table
C6_Witness ==
    /\ RunOk
    /\ lastOutcome = "ok"
    /\ \A t \in Tables : storage[t] # EmptyBag

(* ---------------------------------------------------------------------- *)
(* C7                                                                      *)
(* ---------------------------------------------------------------------- *)

\* C7: for every input event whose page is not NextSong or whose status is
\* not 200, the users, time and songplays tables written are those derived
\* from the input without that event; songs and artists are derived from
\* the song records alone.
C7_FilteredEventsContributeNothing ==
    /\ \A e \in DOMAIN eventInput :
          ~Qualifies(e) =>
              LET ev  == FilterSongPlays(Without(e))
                  evt == WithEventTs(ev)
              IN  /\ "users" \in written => storage["users"] = UsersTable(ev)
                  /\ "time" \in written => storage["time"] = TimeTable(evt)
                  /\ "songplays" \in written =>
                        storage["songplays"] =
                            SongplaysTable(evt, storage["songs"],
                                           storage["artists"])
    /\ "songs" \in written => storage["songs"] = SongsTable(songInput)
    /\ "artists" \in written => storage["artists"] = ArtistsTable(songInput)

\* the three tables are written from an input that holds a page view
\* naming a catalog song next to a play of it
C7_Witness ==
    /\ {"users", "time", "songplays"} \subseteq written
    /\ storage["songplays"] # EmptyBag
    /\ \E e \in DOMAIN eventInput :
          ~Qualifies(e) /\ \E s \in DOMAIN storage["songs"] : e.song = s.title

(* ---------------------------------------------------------------------- *)
(* C8                                                                      *)
(* ---------------------------------------------------------------------- *)

\* C8: every dimension table written holds every one of its rows once.
C8_DimensionsHaveNoDuplicateRows ==
    \A t \in {"songs", "artists", "users", "time"} :
        t \in written => \A r \in DOMAIN storage[t] : storage[t][r] = 1

\* the four dimension tables are written, each from more records than it
\* has rows
C8_Witness ==
    /\ {"songs", "artists", "users", "time"} \subseteq written
    /\ \A t \in {"songs", "artists"} :
          1 <= Count(storage[t]) /\ Count(storage[t]) < Count(songInput)
    /\ \A t \in {"users", "time"} :
          /\ 1 <= Count(storage[t])
          /\ Count(storage[t]) < Count(FilterSongPlays(eventInput))

(* ---------------------------------------------------------------------- *)
(* C9                                                                      *)
(* ---------------------------------------------------------------------- *)

C10_KeysFromOneSongRecord ==
    "songplays" \in written =>
        \A row \in DOMAIN storage["songplays"] :
            \E s \in DOMAIN storage["songs"] :
                s.song_id = row.song_id /\ s.artist_id = row.artist_id

====
